---- MODULE Spec2Model ----
(***************************************************************************)
(* Appointment scheduling engine of the healthcare kiosk                   *)
(* (src/src/appointment_system.py and its callers in src/app.py).          *)
(*                                                                         *)
(* The two CSV files are the shared state: doctors.csv (the doctor         *)
(* catalog) and appointments.csv (the appointment ledger).  Every Streamlit*)
(* session owns its own AppointmentSystem object, so the sessions of       *)
(* different patients are concurrent processes over the same two files.    *)
(*                                                                         *)
(* Representation of the values the code handles:                          *)
(*   - a datetime.time is its minute of the day, 0..1439;                  *)
(*   - datetime.now() is [day, minute, sec]: the day of November 2026, the *)
(*     minute of the day, and sec = 1 when the seconds/microseconds part   *)
(*     is not zero (the code reads .hour and .minute and compares whole    *)
(*     times, nothing finer);                                              *)
(*   - an "HH:MM" text is the tuple of its four digits, a "YYYY-MM-DD"     *)
(*     text is the tuple <<year, month, day>>;                             *)
(*   - a requested date is a day of November 2026.                         *)
(***************************************************************************)
EXTENDS Integers, Sequences, FiniteSets, TLC

VARIABLES
    doctors,        \* rows of data/doctors.csv, in file order
    appointments,   \* rows of data/appointments.csv, in file order
    now,            \* the wall clock, what datetime.now() returns
    proc,           \* per patient session: position inside book/cancel and its locals
    result,         \* the call that finished last: whose, which, what it returned
    nbooked,        \* number of rows written so far (orders created_at)
    offered_rows,   \* history: created_at of the rows booked from an offered slot
    query,          \* the last get_available_time_slots call and what it produced
    view,           \* the "My Appointments" page as it was rendered last
    admin,          \* per administrator session: position inside the doctor forms
    current_session,\* VitalsCollectionSystem.current_session: vital id -> VitalSign
    vital_out       \* what the vitals call that finished last returned or raised

vars == <<doctors, appointments, now, proc, result, nbooked, offered_rows, query,
          view, admin, current_session, vital_out>>

------------------------------------------------------------------------------
(* Bounds of the model *)

\* at most this many book_appointment calls reach the ledger in one behaviour
MaxBookings == 2

\* at most this many rows in data/doctors.csv
MaxDoctors == 4

------------------------------------------------------------------------------
(* Calendar and text conversions *)

MinutesPerDay == 1440
SlotMinutes == 30
BufferMinutes == 60

DayNames == <<"Sun", "Mon", "Tue", "Wed", "Thu", "Fri", "Sat">>

\* date.strftime('%a'): 1 November 2026 is a Sunday
strftime_a(date) == DayNames[((date - 1) % 7) + 1]

\* date.strftime('%Y-%m-%d')
strftime_Ymd(date) == <<2026, 11, date>>

\* time.strftime('%H:%M') of the time t (minute of the day): zero padded digits
strftime_HM(t) ==
    LET h == t \div 60
        m == t % 60
    IN  <<h \div 10, h % 10, m \div 10, m % 10>>

\* map(int, "HH:MM".split(':')): the hour and the minute of a four digit text
int_hour(s) == s[1] * 10 + s[2]
int_min(s) == s[3] * 10 + s[4]

\* datetime.time(hour, minute) accepts hour 0..23 and minute 0..59 only
time_ok(hour, minute) == hour \in 0..23 /\ minute \in 0..59
time(hour, minute) == hour * 60 + minute

\* strptime of a "YYYY-MM-DD" text and of an "HH:MM" text
strptime_Ymd(s) == s[3]
strptime_HM(s) == time(int_hour(s), int_min(s))

Min(S) == CHOOSE x \in S : \A y \in S : x <= y

Range(s) == {s[i] : i \in 1..Len(s)}

------------------------------------------------------------------------------
(* The doctor catalog *)

None == [status |-> "None"]

IsActive(row) == row.status = "active"

get_doctors_any_status == doctors

\* get_doctors: the rows whose status is active, in file order
get_doctors == SelectSeq(doctors, IsActive)

\* get_doctor_by_id: the first active row with this id, else None
get_doctor_by_id(doctor_id) ==
    LET ds == get_doctors
        hits == {i \in 1..Len(ds) : ds[i].doctor_id = doctor_id}
    IN  IF hits = {} THEN None ELSE ds[Min(hits)]

------------------------------------------------------------------------------
(* Slot computation *)

get_booked_slots_pending_only(doctor_id, date) ==
    LET Held(row) == /\ row.doctor_id = doctor_id
                     /\ row.appointment_date = strftime_Ymd(date)
                     /\ row.status \in {"pending"}
        rows == SelectSeq(appointments, Held)
    IN  [i \in 1..Len(rows) |-> rows[i].appointment_time]

\* get_booked_slots: the times of the confirmed or pending rows of the doctor and date
get_booked_slots(doctor_id, date) ==
    LET Held(row) == /\ row.doctor_id = doctor_id
                     /\ row.appointment_date = strftime_Ymd(date)
                     /\ row.status \in {"confirmed", "pending"}
        rows == SelectSeq(appointments, Held)
    IN  [i \in 1..Len(rows) |-> rows[i].appointment_time]

\* (now + timedelta(hours=1)).time(): the time of day one hour from now; the
\* date part is dropped, so it wraps past midnight
min_booking_time == [minute |-> (now.minute + BufferMinutes) % MinutesPerDay,
                     sec |-> now.sec]

\* current_time < min_booking_time, current_time a whole minute
time_before(current_time, mbt) ==
    \/ current_time < mbt.minute
    \/ current_time = mbt.minute /\ mbt.sec > 0

\* lines 112-122: where slot generation starts on a same-day request;
\* [ok, time]: ok is FALSE when time(next_slot_hour, next_slot_min) raises
same_day_start(current_time) ==
    LET mbt == min_booking_time
        hour == mbt.minute \div 60
        minute == mbt.minute % 60
        min0 == IF minute > 0 THEN 30 ELSE 0
        bump == min0 = 30 /\ minute > 30
        next_slot_hour == IF bump THEN hour + 1 ELSE hour
        next_slot_min == IF bump THEN 0 ELSE min0
    IN  IF time_before(current_time, mbt)
        THEN [ok |-> time_ok(next_slot_hour, next_slot_min),
              time |-> time(next_slot_hour, next_slot_min)]
        ELSE [ok |-> TRUE, time |-> current_time]

\* lines 124-129: the while loop.  dt.time() drops the date, so adding 30
\* minutes wraps past midnight; the loop never ends once current_time comes
\* back to a value it already had.
RECURSIVE slot_loop(_, _, _, _)
slot_loop(current_time, end_time, time_slots, seen) ==
    IF ~(current_time < end_time)
    THEN [outcome |-> "return", slots |-> time_slots]
    ELSE IF current_time \in seen
    THEN [outcome |-> "hang", slots |-> <<>>]
    ELSE slot_loop((current_time + SlotMinutes) % MinutesPerDay, end_time,
                   Append(time_slots, strftime_HM(current_time)),
                   seen \cup {current_time})

\* get_available_time_slots, lines 87-129: the slots generated before the
\* booked ones are taken out.  [outcome, slots]: outcome is "return" (the code
\* goes on with slots), "ValueError" (time() raised) or "hang" (the loop does
\* not end)
generate_time_slots(doctor_id, date) ==
    LET doctor == get_doctor_by_id(doctor_id)
    IN  IF doctor = None
        THEN [outcome |-> "return", slots |-> <<>>]
        ELSE IF strftime_a(date) \notin Range(doctor.available_days)
        THEN [outcome |-> "return", slots |-> <<>>]
        ELSE
          LET start_time_str == doctor.available_times[1]
              end_time_str == doctor.available_times[2]
              start == time(int_hour(start_time_str), int_min(start_time_str))
              end_time == time(int_hour(end_time_str), int_min(end_time_str))
              is_today == date = now.day
              first == IF is_today THEN same_day_start(start)
                       ELSE [ok |-> TRUE, time |-> start]
          IN  IF ~first.ok
              THEN [outcome |-> "ValueError", slots |-> <<>>]
              ELSE slot_loop(first.time, end_time, <<>>, {})

\* get_available_time_slots(doctor_id, date), lines 85-135: what the call
\* produces, the generated slots without the booked ones when it returns
get_available_time_slots(doctor_id, date) ==
    LET gen == generate_time_slots(doctor_id, date)
        booked_slots == Range(get_booked_slots(doctor_id, date))
        Free(slot) == slot \notin booked_slots
    IN  IF gen.outcome # "return" THEN gen
        ELSE [outcome |-> "return", slots |-> SelectSeq(gen.slots, Free)]

------------------------------------------------------------------------------
(* Patient sessions, requests and the clock *)

Users == {"u1", "u2"}

HM(h, m) == strftime_HM(time(h, m))

Weekdays == <<"Mon", "Tue", "Wed", "Thu", "Fri">>

\* the catalog the ledger is exercised with: DR001 and DR003 as in the
\* sample data (lines 54, 56), DR002 (line 55) after an administrator has
\* deactivated it
Catalog ==
    << [doctor_id |-> "DR001", available_days |-> Weekdays,
        available_times |-> <<HM(9, 0), HM(17, 0)>>, status |-> "active"],
       [doctor_id |-> "DR002", available_days |-> <<"Mon", "Wed", "Fri">>,
        available_times |-> <<HM(10, 0), HM(16, 0)>>, status |-> "inactive"],
       [doctor_id |-> "DR003", available_days |-> <<"Tue", "Thu", "Sat">>,
        available_times |-> <<HM(11, 0), HM(18, 0)>>, status |-> "active"] >>

DoctorIds == {"DR001", "DR002", "DR003"}

\* the instants the ledger is exercised at: Thursday 5 November 2026, 08:10
\* and 10:05.  The calls of one behaviour all happen within the same minute.
Instants ==
    << [day |-> 5, minute |-> time(8, 10), sec |-> 0],
       [day |-> 5, minute |-> time(10, 5), sec |-> 0] >>

Dates == {5, 7, 9}

\* the (doctor_id, appointment_date, appointment_time) triples callers ask for
Requests ==
    { <<"DR001", 5, HM(9, 30)>>,     \* today: bookable at 08:10, inside the
                                     \* one hour buffer at 10:05
      <<"DR003", 7, HM(9, 0)>>,      \* before the doctor's window opens
      <<"DR002", 9, HM(10, 0)>> }    \* a deactivated doctor

\* str(uuid.uuid4())[:8].upper(): a random value, nothing compares it with
\* the ids already in the ledger; the values are named in the order they can
\* first appear, so the k-th id drawn is one of 1..k
AppointmentIds == 1..MaxBookings

NoRow == [appointment_id |-> 0, user_id |-> "", doctor_id |-> "",
          appointment_date |-> <<>>, appointment_time |-> <<>>,
          status |-> "", created_at |-> 0]

\* what a session keeps of the call it is in.  Beside the arguments, history
\* for the properties: offered (the time was among the slots computed when
\* book_appointment was called), eligible (cancel_appointment found a row of
\* the id and user that was not cancelled or completed), target (the row
\* cancel_appointment marks), raced (the sessions whose book_appointment for
\* the same triple overlaps this one) and beaten (one of those has succeeded)
NoCall == [op |-> "none", doctor_id |-> "", date |-> 0, time |-> <<>>,
           offered |-> FALSE, eligible |-> FALSE, target |-> NoRow,
           raced |-> {}, beaten |-> FALSE]

Idle == [pc |-> "idle", call |-> NoCall, row |-> NoRow, rows |-> <<>>]

\* what the call that finished last returned: success or not
NoResult == [op |-> "none", ok |-> FALSE]

Returned(call, ok) == [op |-> call.op, ok |-> ok]

NoQuery == [doctor_id |-> "", date |-> 0,
            res |-> [outcome |-> "none", slots |-> <<>>]]

\* nothing rendered yet
NoView == [user_id |-> "", entries |-> <<>>]

\* administrator sessions of the "Doctor Management" page
Admins == {"a1", "a2"}

AdminIdle == [pc |-> "idle", doctor_id |-> "", row |-> None, rows |-> <<>>]

\* current_session = {} after __init__ and after clear_session
EmptySession == <<>>

\* a rational number, den > 0
Q(num, den) == [num |-> num, den |-> den]

NoVitalSign == [name |-> "", value |-> Q(0, 1), normal_range |-> <<Q(0, 1), Q(0, 1)>>,
                status |-> ""]

\* what a vitals call handed back: a VitalSign (collect_vital), a score
\* (get_health_score) or a mapping of VitalSigns (collect_multiple_vitals,
\* calculate_derived_vitals), or the exception it raised
VitalOut(op, outcome, vital, score) ==
    [op |-> op, outcome |-> outcome, vital |-> vital, score |-> score,
     collected |-> EmptySession]

NoScore == [score |-> 0, grade |-> "", normal_vitals |-> 0, abnormal_vitals |-> 0,
            critical_vitals |-> 0, total_vitals |-> 0]

NoVitalOut == VitalOut("none", "none", NoVitalSign, NoScore)

InFlightBooks == {u \in Users : proc[u].pc = "book_append"}

uuid4_8 == 1..(nbooked + Cardinality(InFlightBooks) + 1)

------------------------------------------------------------------------------
(* book_appointment *)

SameTriple(c, doctor_id, date, appointment_time) ==
    /\ c.op = "book"
    /\ c.doctor_id = doctor_id
    /\ c.date = date
    /\ c.time = appointment_time

\* lines 156-165: look the doctor up; "Doctor not found" ends the call,
\* otherwise the id is drawn and the row is ready to be written
BookLookup(u, doctor_id, date, appointment_time) ==
    /\ proc[u].pc = "idle"
    /\ nbooked + Cardinality(InFlightBooks) < MaxBookings
    /\ LET doctor == get_doctor_by_id(doctor_id)
           avail == get_available_time_slots(doctor_id, date)
           racing == {v \in InFlightBooks :
                        SameTriple(proc[v].call, doctor_id, date, appointment_time)}
           call == [NoCall EXCEPT !.op = "book", !.doctor_id = doctor_id,
                                  !.date = date, !.time = appointment_time,
                                  !.offered = /\ avail.outcome = "return"
                                              /\ appointment_time \in Range(avail.slots),
                                  !.raced = racing]
       IN  IF doctor = None
           THEN /\ result' = Returned(call, FALSE)
                /\ UNCHANGED proc
           ELSE \E appointment_id \in uuid4_8 :
                /\ proc' = [v \in Users |->
                              IF v = u
                              THEN [pc |-> "book_append", call |-> call,
                                    row |-> [appointment_id |-> appointment_id,
                                             user_id |-> u,
                                             doctor_id |-> doctor_id,
                                             appointment_date |-> strftime_Ymd(date),
                                             appointment_time |-> appointment_time,
                                             status |-> "confirmed",
                                             created_at |-> 0],
                                    rows |-> <<>>]
                              ELSE IF v \in racing
                              THEN [proc[v] EXCEPT !.call.raced = @ \cup {u}]
                              ELSE proc[v]]
                /\ UNCHANGED result
    /\ UNCHANGED <<doctors, appointments, now, nbooked, offered_rows, query,
                   view, admin, current_session, vital_out>>

\* lines 167-183: append the row to the ledger and report success
BookAppend(u) ==
    /\ proc[u].pc = "book_append"
    /\ appointments' = Append(appointments,
                              [proc[u].row EXCEPT !.created_at = nbooked + 1])
    /\ nbooked' = nbooked + 1
    /\ offered_rows' = IF proc[u].call.offered
                       THEN offered_rows \cup {nbooked + 1}
                       ELSE offered_rows
    /\ result' = Returned(proc[u].call, TRUE)
    /\ proc' = [v \in Users |->
                  IF v = u THEN Idle
                  ELSE IF v \in InFlightBooks /\ v \in proc[u].call.raced
                                             /\ u \in proc[v].call.raced
                  THEN [proc[v] EXCEPT !.call.beaten = TRUE]
                  ELSE proc[v]]
    /\ UNCHANGED <<doctors, now, query, view, admin, current_session, vital_out>>

------------------------------------------------------------------------------
(* cancel_appointment *)

Matches(row, appointment_id, user_id) ==
    /\ row.appointment_id = appointment_id
    /\ row.user_id = user_id

\* lines 213-218: the row the loop updates, 0 when no row matches
cancel_target(rows, appointment_id, user_id) ==
    LET hits == {i \in 1..Len(rows) : Matches(rows[i], appointment_id, user_id)}
    IN  IF hits = {} THEN 0 ELSE Min(hits)

\* lines 205-218 (and 231 when nothing matched): read the whole ledger and
\* mark the first row of this id and user as cancelled
CancelRead(u, appointment_id) ==
    /\ proc[u].pc = "idle"
    /\ LET read == appointments
           i == cancel_target(read, appointment_id, u)
           call == [NoCall EXCEPT
                      !.op = "cancel",
                      !.eligible = \E k \in 1..Len(read) :
                                      /\ Matches(read[k], appointment_id, u)
                                      /\ read[k].status \notin {"cancelled", "completed"},
                      !.target = IF i = 0 THEN NoRow ELSE read[i]]
       IN  IF i = 0
           THEN /\ result' = Returned(call, FALSE)
                /\ UNCHANGED proc
           ELSE /\ proc' = [proc EXCEPT ![u] =
                              [pc |-> "cancel_write", call |-> call, row |-> NoRow,
                               rows |-> [read EXCEPT ![i].status = "cancelled"]]]
                /\ UNCHANGED result
    /\ UNCHANGED <<doctors, appointments, now, nbooked, offered_rows, query,
                   view, admin, current_session, vital_out>>

\* lines 220-227: write every row read back over the file and return True
CancelWrite(u) ==
    /\ proc[u].pc = "cancel_write"
    /\ appointments' = proc[u].rows
    /\ result' = Returned(proc[u].call, TRUE)
    /\ proc' = [proc EXCEPT ![u] = Idle]
    /\ UNCHANGED <<doctors, now, nbooked, offered_rows, query,
                   view, admin, current_session, vital_out>>

\* lines 222-231 when the write-back does not complete (the disk is full, the
\* file system fails): open(..., 'w') has emptied the file, k rows reached it
\* before the error, the exception is logged and the call returns False
CancelWriteFails(u) ==
    /\ proc[u].pc = "cancel_write"
    /\ \E k \in 0..Len(proc[u].rows) :
          appointments' = SubSeq(proc[u].rows, 1, k)
    /\ result' = Returned(proc[u].call, FALSE)
    /\ proc' = [proc EXCEPT ![u] = Idle]
    /\ UNCHANGED <<doctors, now, nbooked, offered_rows, query,
                   view, admin, current_session, vital_out>>

------------------------------------------------------------------------------
(* The ledger under concurrent patient sessions *)

Init ==
    /\ doctors = Catalog
    /\ appointments = <<>>
    /\ now \in Range(Instants)
    /\ proc = [u \in Users |-> Idle]
    /\ result = NoResult
    /\ nbooked = 0
    /\ offered_rows = {}
    /\ query = NoQuery
    /\ view = NoView
    /\ admin = [a \in Admins |-> AdminIdle]
    /\ current_session = EmptySession
    /\ vital_out = NoVitalOut

Next ==
    \/ \E u \in Users : \E r \in Requests : BookLookup(u, r[1], r[2], r[3])
    \/ \E u \in Users : BookAppend(u)
    \/ \E u \in Users : \E id \in AppointmentIds : CancelRead(u, id)
    \/ \E u \in Users : CancelWrite(u)

Spec == Init /\ [][Next]_vars

------------------------------------------------------------------------------
(* get_available_time_slots on its own: the catalog, the ledger and the    *)
(* clock are drawn from bounded sets and the function is applied to them   *)

SlotWindows ==
    { <<HM(9, 0), HM(17, 0)>>,      \* the window of the sample doctor DR001
      <<HM(9, 15), HM(11, 0)>>,     \* a start off the half-hour grid
      <<HM(21, 0), HM(23, 45)>>,    \* an end later than 23:30
      <<HM(10, 0), HM(10, 0)>> }    \* an empty window

SlotDaySets == { Weekdays, <<"Mon", "Wed", "Fri">> }

\* one-row catalogs, as the "Add Doctor" form (app.py lines 692-699) and the
\* "Deactivate Doctor" button (app.py lines 754-757) leave them
SlotCatalogs ==
    { << [doctor_id |-> "DR001", available_days |-> d,
          available_times |-> w, status |-> st] >> :
        d \in SlotDaySets, w \in SlotWindows, st \in {"active", "inactive"} }

\* Thursday 5 November 2026 at 08:10:00, 08:20:00, 10:05:00, 10:00:30,
\* 22:45:00, 23:10:00
SlotInstants ==
    { [day |-> 5, minute |-> time(8, 10), sec |-> 0],
      [day |-> 5, minute |-> time(8, 20), sec |-> 0],
      [day |-> 5, minute |-> time(10, 5), sec |-> 0],
      [day |-> 5, minute |-> time(10, 0), sec |-> 1],
      [day |-> 5, minute |-> time(22, 45), sec |-> 0],
      [day |-> 5, minute |-> time(23, 10), sec |-> 0] }

BookedRow(id, u, date, t, st, at) ==
    [appointment_id |-> id, user_id |-> u, doctor_id |-> "DR001",
     appointment_date |-> strftime_Ymd(date), appointment_time |-> t,
     status |-> st, created_at |-> at]

\* ledgers book_appointment and cancel_appointment can have written
SlotLedgers ==
    { <<>>,
      << BookedRow(1, "u1", 9, HM(9, 30), "confirmed", 1) >>,
      << BookedRow(1, "u1", 9, HM(9, 30), "cancelled", 1),
         BookedRow(2, "u2", 5, HM(12, 0), "confirmed", 2) >> }

QueryDoctorIds == {"DR001", "DR009"}

SlotInit ==
    /\ doctors \in SlotCatalogs
    /\ appointments \in SlotLedgers
    /\ now \in SlotInstants
    /\ proc = [u \in Users |-> Idle]
    /\ result = NoResult
    /\ nbooked = Len(appointments)
    /\ offered_rows = {}
    /\ query = NoQuery
    /\ view = NoView
    /\ admin = [a \in Admins |-> AdminIdle]
    /\ current_session = EmptySession
    /\ vital_out = NoVitalOut

\* a caller asks for the slots of a doctor and a date (app.py lines 440-443)
SlotQuery(doctor_id, date) ==
    /\ query' = [doctor_id |-> doctor_id, date |-> date,
                 res |-> get_available_time_slots(doctor_id, date)]
    /\ UNCHANGED <<doctors, appointments, now, proc, result, nbooked, offered_rows,
                   view, admin, current_session, vital_out>>

SlotNext == \E doctor_id \in QueryDoctorIds : \E date \in Dates : SlotQuery(doctor_id, date)

SlotSpec == SlotInit /\ [][SlotNext]_vars

------------------------------------------------------------------------------
(* The "My Appointments" page (app.py, my_appointments_interface)          *)

\* sorted(seq, key=..., reverse=True), keys[i] the key of seq[i]: latest key
\* first.  The sort is stable: elements of the same key keep their order.
sorted_reverse(seq, keys) ==
    LET pos(i) == Cardinality({j \in 1..Len(seq) :
                                  \/ keys[j] > keys[i]
                                  \/ keys[j] = keys[i] /\ j < i}) + 1
    IN  [p \in 1..Len(seq) |-> seq[CHOOSE i \in 1..Len(seq) : pos(i) = p]]

\* sorted(seq, key=...): ascending and stable
sorted(seq, keys) ==
    LET pos(i) == Cardinality({j \in 1..Len(seq) :
                                  \/ keys[j] < keys[i]
                                  \/ keys[j] = keys[i] /\ j < i}) + 1
    IN  [p \in 1..Len(seq) |-> seq[CHOOSE i \in 1..Len(seq) : pos(i) = p]]

\* x['appointment_date'] of every row; the order of two "YYYY-MM-DD" texts is
\* the order of these numbers
date_keys(rows) ==
    [i \in 1..Len(rows) |-> rows[i].appointment_date[1] * 10000
                              + rows[i].appointment_date[2] * 100
                              + rows[i].appointment_date[3]]

\* x['created_at'] of every row
created_keys(rows) == [i \in 1..Len(rows) |-> rows[i].created_at]

\* get_user_appointments: the rows of the user, latest appointment_date first
get_user_appointments(user_id) ==
    LET Mine(row) == row.user_id = user_id
        mine == SelectSeq(appointments, Mine)
    IN  sorted_reverse(mine, date_keys(mine))

StatusFilters == {"All", "confirmed", "cancelled", "completed"}

SortOrders == {"Newest First", "Oldest First", "Date Ascending", "Date Descending"}

\* lines 549-566: the rows the page lists, filtered and sorted
filtered_appointments(user_id, status_filter, sort_order) ==
    LET Shown(row) == status_filter = "All" \/ row.status = status_filter
        rows == SelectSeq(get_user_appointments(user_id), Shown)
    IN  CASE sort_order = "Newest First" -> sorted_reverse(rows, created_keys(rows))
          [] sort_order = "Oldest First" -> sorted(rows, created_keys(rows))
          [] sort_order = "Date Ascending" -> sorted(rows, date_keys(rows))
          [] OTHER -> sorted_reverse(rows, date_keys(rows))

\* lines 591-594: the appointment's date and time, in minutes since the
\* month began
appointment_datetime(row) ==
    strptime_Ymd(row.appointment_date) * MinutesPerDay
        + strptime_HM(row.appointment_time)

\* line 598: appointment_datetime - now, a timedelta: whole minutes rounded
\* down, and frac when a part of a minute remains above them
time_until_appointment(row) ==
    LET d == appointment_datetime(row) - (now.day * MinutesPerDay + now.minute)
    IN  IF now.sec > 0 THEN [minutes |-> d - 1, frac |-> TRUE]
                       ELSE [minutes |-> d, frac |-> FALSE]

\* timedelta(minutes=k) <= td and td <= timedelta(minutes=k)
timedelta_ge(td, k) == td.minutes >= k
timedelta_le(td, k) == td.minutes < k \/ (td.minutes = k /\ ~td.frac)

\* lines 590-600: the "Join Meeting" button is drawn for this row
join_offered(row) ==
    /\ row.status = "confirmed"
    /\ timedelta_ge(time_until_appointment(row), -30)
    /\ timedelta_le(time_until_appointment(row), 60)

\* lines 590, 605-606: the "Cancel Appointment" button is drawn for this row
cancel_offered(row) ==
    /\ row.status = "confirmed"
    /\ ~timedelta_le(time_until_appointment(row), 0)

\* lines 528-606: a patient opens the page; what is listed and which buttons
\* each entry gets
Render(u, status_filter, sort_order) ==
    /\ LET rows == filtered_appointments(u, status_filter, sort_order)
       IN  view' = [user_id |-> u,
                    entries |-> [k \in 1..Len(rows) |->
                                   [row |-> rows[k],
                                    join |-> join_offered(rows[k]),
                                    cancel |-> cancel_offered(rows[k])]]]
    /\ UNCHANGED <<doctors, appointments, now, proc, result, nbooked, offered_rows,
                   query, admin, current_session, vital_out>>

\* Thursday 5 November 2026, at times around a 09:30 appointment
ViewInstants ==
    { [day |-> 5, minute |-> time(8, 10), sec |-> 0],
      [day |-> 5, minute |-> time(8, 30), sec |-> 0],
      [day |-> 5, minute |-> time(8, 40), sec |-> 0],
      [day |-> 5, minute |-> time(9, 0), sec |-> 0],
      [day |-> 5, minute |-> time(9, 30), sec |-> 0],
      [day |-> 5, minute |-> time(10, 0), sec |-> 0],
      [day |-> 5, minute |-> time(10, 0), sec |-> 1],
      [day |-> 5, minute |-> time(10, 30), sec |-> 0],
      [day |-> 5, minute |-> time(10, 30), sec |-> 1] }

\* ledgers of earlier days' bookings: today's 09:30 and next Monday's 10:00
ViewLedgers ==
    { << BookedRow(1, "u1", 5, HM(9, 30), "confirmed", 1),
         BookedRow(2, "u2", 9, HM(10, 0), "confirmed", 2),
         BookedRow(3, "u1", 9, HM(10, 30), "cancelled", 3) >>,
      << BookedRow(1, "u2", 9, HM(9, 30), "confirmed", 1),
         BookedRow(2, "u2", 5, HM(9, 30), "confirmed", 2) >> }

ViewAppointmentIds == {1, 2, 3}

ViewInit ==
    /\ doctors = Catalog
    /\ appointments \in ViewLedgers
    /\ now \in ViewInstants
    /\ proc = [u \in Users |-> Idle]
    /\ result = NoResult
    /\ nbooked = Len(appointments)
    /\ offered_rows = {}
    /\ query = NoQuery
    /\ view = NoView
    /\ admin = [a \in Admins |-> AdminIdle]
    /\ current_session = EmptySession
    /\ vital_out = NoVitalOut

ViewNext ==
    \E u \in Users : \E f \in StatusFilters : \E o \in SortOrders : Render(u, f, o)

ViewSpec == ViewInit /\ [][ViewNext]_vars

\* cancel_appointment on the same ledgers and at the same times, its
\* write-back completing or not
CancelNext ==
    \/ \E u \in Users : \E id \in ViewAppointmentIds : CancelRead(u, id)
    \/ \E u \in Users : CancelWrite(u)
    \/ \E u \in Users : CancelWriteFails(u)

CancelSpec == ViewInit /\ [][CancelNext]_vars

------------------------------------------------------------------------------
(* The "Doctor Management" page (app.py, doctor_management_interface)      *)

\* data/doctors.csv as ensure_data_files creates it: every sample doctor active
SampleCatalog == [i \in 1..Len(Catalog) |-> [Catalog[i] EXCEPT !.status = "active"]]

\* what an administrator types into "Doctor ID"; "" is the field left empty
FormDoctorIds == {"", "DR002", "DR006"}

\* the days ticked and the default start and end time of the form
FormDays == <<"Mon", "Wed">>
FormTimes == <<HM(9, 0), HM(17, 0)>>

InFlightAdds == {a \in Admins : admin[a].pc = "add_append"}

\* lines 681-688: "Add Doctor" submitted; a required field left empty or an
\* id that get_doctors already lists ends the handler with an error message
AddDoctorCheck(a, doctor_id) ==
    /\ admin[a].pc = "idle"
    /\ Len(doctors) + Cardinality(InFlightAdds) < MaxDoctors
    /\ LET existing_doctors == get_doctors
           exists == \E i \in 1..Len(existing_doctors) :
                        existing_doctors[i].doctor_id = doctor_id
       IN  IF doctor_id = "" \/ exists
           THEN UNCHANGED admin
           ELSE admin' = [admin EXCEPT ![a] =
                            [pc |-> "add_append", doctor_id |-> doctor_id,
                             row |-> [doctor_id |-> doctor_id,
                                      available_days |-> FormDays,
                                      available_times |-> FormTimes,
                                      status |-> "active"],
                             rows |-> <<>>]]
    /\ UNCHANGED <<doctors, appointments, now, proc, result, nbooked, offered_rows,
                   query, view, current_session, vital_out>>

\* lines 691-701: the row is appended to data/doctors.csv
AddDoctorAppend(a) ==
    /\ admin[a].pc = "add_append"
    /\ doctors' = Append(doctors, admin[a].row)
    /\ admin' = [admin EXCEPT ![a] = AdminIdle]
    /\ UNCHANGED <<appointments, now, proc, result, nbooked, offered_rows,
                   query, view, current_session, vital_out>>

\* lines 754-757 and 782-785: the first row of this id gets the status
set_status(all_doctors, doctor_id, status) ==
    LET hits == {i \in 1..Len(all_doctors) : all_doctors[i].doctor_id = doctor_id}
    IN  IF hits = {} THEN all_doctors
        ELSE [all_doctors EXCEPT ![Min(hits)].status = status]

\* lines 733-757 and 772-785: a doctor that get_doctors lists is selected,
\* "Deactivate Doctor" (status inactive) or "Activate Doctor" (status active)
\* is pressed, the whole file is read and the row is changed in memory
ToggleRead(a, doctor_id, status) ==
    /\ admin[a].pc = "idle"
    /\ \E i \in 1..Len(get_doctors) : get_doctors[i].doctor_id = doctor_id
    /\ admin' = [admin EXCEPT ![a] =
                    [pc |-> "toggle_write", doctor_id |-> doctor_id, row |-> None,
                     rows |-> set_status(doctors, doctor_id, status)]]
    /\ UNCHANGED <<doctors, appointments, now, proc, result, nbooked, offered_rows,
                   query, view, current_session, vital_out>>

\* lines 759-767 and 787-795: every row read is written back over the file
ToggleWrite(a) ==
    /\ admin[a].pc = "toggle_write"
    /\ doctors' = admin[a].rows
    /\ admin' = [admin EXCEPT ![a] = AdminIdle]
    /\ UNCHANGED <<appointments, now, proc, result, nbooked, offered_rows,
                   query, view, current_session, vital_out>>

AdminInit ==
    /\ doctors = SampleCatalog
    /\ appointments = <<>>
    /\ now = Instants[1]
    /\ proc = [u \in Users |-> Idle]
    /\ result = NoResult
    /\ nbooked = 0
    /\ offered_rows = {}
    /\ query = NoQuery
    /\ view = NoView
    /\ admin = [a \in Admins |-> AdminIdle]
    /\ current_session = EmptySession
    /\ vital_out = NoVitalOut

AdminNext ==
    \/ \E a \in Admins : \E doctor_id \in FormDoctorIds : AddDoctorCheck(a, doctor_id)
    \/ \E a \in Admins : AddDoctorAppend(a)
    \/ \E a \in Admins : \E doctor_id \in DoctorIds \cup FormDoctorIds :
          \E status \in {"inactive", "active"} : ToggleRead(a, doctor_id, status)
    \/ \E a \in Admins : ToggleWrite(a)

AdminSpec == AdminInit /\ [][AdminNext]_vars

------------------------------------------------------------------------------
(* Vitals collection (src/src/vitals_system.py)                            *)
(*                                                                         *)
(* A measured value and a range limit are rational numbers [num, den],     *)
(* den > 0: the values a patient enters are decimals with few digits, and  *)
(* on those the float comparisons of the code agree with the exact ones.   *)

q_lt(a, b) == a.num * b.den < b.num * a.den

\* x * 0.7 and x * 1.3
times_0_7(x) == Q(7 * x.num, 10 * x.den)
times_1_3(x) == Q(13 * x.num, 10 * x.den)

\* _initialize_vital_definitions: the normal_range of each of the 28 vitals
vital_definitions ==
    "heart_rate" :> <<Q(60, 1), Q(100, 1)>> @@
    "blood_pressure_systolic" :> <<Q(90, 1), Q(120, 1)>> @@
    "blood_pressure_diastolic" :> <<Q(60, 1), Q(80, 1)>> @@
    "pulse_rate" :> <<Q(60, 1), Q(100, 1)>> @@
    "mean_arterial_pressure" :> <<Q(70, 1), Q(100, 1)>> @@
    "blood_pressure_pulse_pressure" :> <<Q(30, 1), Q(40, 1)>> @@
    "respiratory_rate" :> <<Q(12, 1), Q(20, 1)>> @@
    "oxygen_saturation" :> <<Q(95, 1), Q(100, 1)>> @@
    "body_temperature" :> <<Q(361, 10), Q(186, 5)>> @@
    "blood_glucose" :> <<Q(70, 1), Q(140, 1)>> @@
    "cholesterol_total" :> <<Q(0, 1), Q(200, 1)>> @@
    "cholesterol_ldl" :> <<Q(0, 1), Q(100, 1)>> @@
    "cholesterol_hdl" :> <<Q(40, 1), Q(100, 1)>> @@
    "triglycerides" :> <<Q(0, 1), Q(150, 1)>> @@
    "hemoglobin" :> <<Q(12, 1), Q(16, 1)>> @@
    "white_blood_cells" :> <<Q(4000, 1), Q(11000, 1)>> @@
    "red_blood_cells" :> <<Q(4200000, 1), Q(5400000, 1)>> @@
    "platelets" :> <<Q(150000, 1), Q(450000, 1)>> @@
    "height" :> <<Q(140, 1), Q(220, 1)>> @@
    "weight" :> <<Q(30, 1), Q(200, 1)>> @@
    "bmi" :> <<Q(37, 2), Q(249, 10)>> @@
    "waist_circumference" :> <<Q(70, 1), Q(102, 1)>> @@
    "hip_circumference" :> <<Q(85, 1), Q(120, 1)>> @@
    "body_fat_percentage" :> <<Q(10, 1), Q(25, 1)>> @@
    "muscle_mass" :> <<Q(25, 1), Q(50, 1)>> @@
    "bone_density" :> <<Q(4, 5), Q(6, 5)>> @@
    "vision_acuity" :> <<Q(4, 5), Q(1, 1)>> @@
    "hearing_threshold" :> <<Q(0, 1), Q(25, 1)>>

post_init_status_critical_inclusive(value, normal_range) ==
    LET min_val == normal_range[1]
        max_val == normal_range[2]
        status == IF q_lt(value, min_val) THEN "low"
                  ELSE IF q_lt(max_val, value) THEN "high"
                  ELSE "normal"
        critical_low == times_0_7(min_val)
        critical_high == times_1_3(max_val)
    IN  IF ~q_lt(critical_low, value) \/ ~q_lt(value, critical_high)
        THEN "critical"
        ELSE status

\* VitalSign.__post_init__: the status of a value in a normal range
post_init_status(value, normal_range) ==
    LET min_val == normal_range[1]
        max_val == normal_range[2]
        status == IF q_lt(value, min_val) THEN "low"
                  ELSE IF q_lt(max_val, value) THEN "high"
                  ELSE "normal"
        critical_low == times_0_7(min_val)
        critical_high == times_1_3(max_val)
    IN  IF q_lt(value, critical_low) \/ q_lt(critical_high, value)
        THEN "critical"
        ELSE status

\* VitalSign(...) as collect_vital builds it
VitalSign(vital_name, value) ==
    [name |-> vital_name, value |-> value,
     normal_range |-> vital_definitions[vital_name],
     status |-> post_init_status(value, vital_definitions[vital_name])]

\* the names and the values callers pass to collect_vital: heart rates around
\* every limit of the range (60, 100), and an id that is not registered
CollectInputs ==
    [ heart_rate |-> {Q(41, 1), Q(42, 1), Q(59, 1), Q(60, 1), Q(75, 1),
                      Q(100, 1), Q(101, 1), Q(130, 1), Q(131, 1)},
      body_temperature |-> {Q(365, 10), Q(380, 10), Q(252, 10)},
      height |-> {Q(170, 1), Q(130, 1)},
      weight |-> {Q(70, 1), Q(270, 1)},
      invalid_vital |-> {Q(100, 1)} ]

\* a collect_vital that stores a measurement under any name
collect_vital_any_name(vital_name, value) ==
    LET vital_sign ==
            IF vital_name \in DOMAIN vital_definitions
            THEN VitalSign(vital_name, value)
            ELSE [name |-> vital_name, value |-> value,
                  normal_range |-> <<Q(0, 1), Q(0, 1)>>, status |-> "normal"]
    IN  /\ current_session' =
              [k \in DOMAIN current_session \cup {vital_name} |->
                  IF k = vital_name THEN vital_sign ELSE current_session[k]]
        /\ vital_out' = VitalOut("collect_vital", "return", vital_sign, NoScore)
        /\ UNCHANGED <<doctors, appointments, now, proc, result, nbooked,
                       offered_rows, query, view, admin>>

\* collect_vital(vital_name, value), lines 273-292
collect_vital(vital_name, value) ==
    /\ IF vital_name \notin DOMAIN vital_definitions
       THEN /\ vital_out' = VitalOut("collect_vital", "ValueError", NoVitalSign, NoScore)
            /\ UNCHANGED current_session
       ELSE LET vital_sign == VitalSign(vital_name, value)
            IN  /\ current_session' =
                      [k \in DOMAIN current_session \cup {vital_name} |->
                          IF k = vital_name THEN vital_sign ELSE current_session[k]]
                /\ vital_out' = VitalOut("collect_vital", "return", vital_sign, NoScore)
    /\ UNCHANGED <<doctors, appointments, now, proc, result, nbooked, offered_rows,
                   query, view, admin>>

\* clear_session, lines 458-461
clear_session ==
    /\ current_session' = EmptySession
    /\ vital_out' = VitalOut("clear_session", "return", NoVitalSign, NoScore)
    /\ UNCHANGED <<doctors, appointments, now, proc, result, nbooked, offered_rows,
                   query, view, admin>>

\* lines 431-435 are evaluated in IEEE-754 double arithmetic:
\* (normal / total) * 100 - (abnormal / total) * 20 - (critical / total) * 50.
\* For sessions of up to 8 measurements the computed value differs from the
\* exact one, by less than 1e-13, for these <<total, normal, abnormal,
\* critical>>: it lies below the exact value for the first set and above it
\* for the second.
FloatBelow ==
    { <<3, 1, 2, 0>>, <<3, 2, 0, 1>>, <<3, 2, 1, 0>>, <<6, 0, 1, 5>>,
      <<6, 1, 0, 5>>, <<6, 1, 2, 3>>, <<6, 1, 5, 0>>, <<6, 2, 1, 3>>,
      <<6, 2, 3, 1>>, <<6, 2, 4, 0>>, <<6, 4, 0, 2>>, <<6, 4, 1, 1>>,
      <<6, 4, 2, 0>>, <<7, 0, 2, 5>>, <<7, 1, 1, 5>>, <<7, 1, 5, 1>>,
      <<7, 1, 6, 0>>, <<7, 2, 0, 5>>, <<7, 2, 1, 4>>, <<7, 2, 2, 3>>,
      <<7, 2, 5, 0>>, <<7, 3, 0, 4>>, <<7, 3, 2, 2>>, <<7, 3, 3, 1>>,
      <<7, 3, 4, 0>>, <<7, 4, 0, 3>>, <<7, 4, 2, 1>>, <<7, 4, 3, 0>>,
      <<7, 6, 0, 1>>, <<7, 6, 1, 0>> }

FloatAbove ==
    { <<3, 0, 1, 2>>, <<3, 0, 2, 1>>, <<6, 0, 2, 4>>, <<6, 0, 4, 2>>,
      <<6, 1, 1, 4>>, <<6, 5, 0, 1>>, <<6, 5, 1, 0>>, <<7, 0, 1, 6>>,
      <<7, 0, 3, 4>>, <<7, 0, 4, 3>>, <<7, 0, 5, 2>>, <<7, 0, 6, 1>>,
      <<7, 1, 0, 6>>, <<7, 1, 3, 3>>, <<7, 1, 4, 2>>, <<7, 2, 3, 2>>,
      <<7, 3, 1, 3>>, <<7, 5, 0, 2>>, <<7, 5, 1, 1>>, <<7, 5, 2, 0>> }

final_score_penalty_added(total, normal, abnormal, critical) ==
    LET num == 100 * normal - 20 * abnormal + 50 * critical
    IN  IF num < 0 THEN [num |-> 0, den |-> 1, err |-> 0]
        ELSE [num |-> num, den |-> total, err |-> 0]

\* lines 431-435: final_score, the exact value num/den and the sign err of
\* (computed value - exact value); max(0, ...) gives 0 for a negative value
final_score(total, normal, abnormal, critical) ==
    LET num == 100 * normal - 20 * abnormal - 50 * critical
        err == IF <<total, normal, abnormal, critical>> \in FloatBelow THEN -1
               ELSE IF <<total, normal, abnormal, critical>> \in FloatAbove THEN 1
               ELSE 0
    IN  IF num < 0 \/ (num = 0 /\ err < 0)
        THEN [num |-> 0, den |-> 1, err |-> 0]
        ELSE [num |-> num, den |-> total, err |-> err]

\* final_score >= threshold, on the computed value
score_ge(f, threshold) ==
    \/ f.num > threshold * f.den
    \/ f.num = threshold * f.den /\ f.err >= 0

\* round(final_score, 1), in tenths: to the nearest tenth of the computed
\* value, a tie going to the even tenth
round_1(f) ==
    LET q == (10 * f.num) \div f.den
        r == (10 * f.num) % f.den
    IN  IF 2 * r > f.den THEN q + 1
        ELSE IF 2 * r < f.den THEN q
        ELSE IF f.err > 0 THEN q + 1
        ELSE IF f.err < 0 THEN q
        ELSE IF q % 2 = 0 THEN q ELSE q + 1

\* the number of measurements of the session whose status is one of these
status_count(session, statuses) ==
    Cardinality({k \in DOMAIN session : session[k].status \in statuses})

\* lines 422-456: what get_health_score returns for a session; the score in
\* tenths
health_score(session) ==
    IF DOMAIN session = {}
    THEN [score |-> 0, grade |-> "Unknown", normal_vitals |-> 0,
          abnormal_vitals |-> 0, critical_vitals |-> 0, total_vitals |-> 0]
    ELSE
      LET total_vitals == Cardinality(DOMAIN session)
          normal_count == status_count(session, {"normal"})
          abnormal_count == status_count(session, {"low", "high"})
          critical_count == status_count(session, {"critical"})
          f == final_score(total_vitals, normal_count, abnormal_count, critical_count)
          grade == IF score_ge(f, 90) THEN "Excellent"
                   ELSE IF score_ge(f, 80) THEN "Good"
                   ELSE IF score_ge(f, 70) THEN "Fair"
                   ELSE IF score_ge(f, 60) THEN "Poor"
                   ELSE "Critical"
      IN  [score |-> round_1(f), grade |-> grade, normal_vitals |-> normal_count,
           abnormal_vitals |-> abnormal_count, critical_vitals |-> critical_count,
           total_vitals |-> total_vitals]

\* get_health_score(), lines 420-456
get_health_score ==
    /\ vital_out' = VitalOut("get_health_score", "return", NoVitalSign,
                             health_score(current_session))
    /\ UNCHANGED <<doctors, appointments, now, proc, result, nbooked, offered_rows,
                   query, view, admin, current_session>>

VitalsInit ==
    /\ doctors = Catalog
    /\ appointments = <<>>
    /\ now = Instants[1]
    /\ proc = [u \in Users |-> Idle]
    /\ result = NoResult
    /\ nbooked = 0
    /\ offered_rows = {}
    /\ query = NoQuery
    /\ view = NoView
    /\ admin = [a \in Admins |-> AdminIdle]
    /\ current_session = EmptySession
    /\ vital_out = NoVitalOut

VitalsNext ==
    \/ \E vital_name \in DOMAIN CollectInputs :
          \E value \in CollectInputs[vital_name] : collect_vital(vital_name, value)
    \/ clear_session
    \/ get_health_score

VitalsSpec == VitalsInit /\ [][VitalsNext]_vars

------------------------------------------------------------------------------
(* Derived vitals and the vitals form (src/src/vitals_system.py, src/app.py) *)

q_le(a, b) == a.num * b.den <= b.num * a.den

q_add(a, b) == Q(a.num * b.den + b.num * a.den, a.den * b.den)

q_sub(a, b) == Q(a.num * b.den - b.num * a.den, a.den * b.den)

\* a store that keeps the measurement a name already has
stored_keeps_first(session, signs) ==
    [k \in DOMAIN session \cup DOMAIN signs |->
        IF k \in DOMAIN session THEN session[k] ELSE signs[k]]

\* the session after collect_vital stored each VitalSign of a mapping under
\* its name, line 288
stored(session, signs) ==
    [k \in DOMAIN session \cup DOMAIN signs |->
        IF k \in DOMAIN signs THEN signs[k] ELSE session[k]]

\* collect_multiple_vitals(vitals_data), lines 294-313: collect_vital for each
\* item, an unregistered name is logged and left out
collected_signs(vitals_data) ==
    LET known == {n \in DOMAIN vitals_data : n \in DOMAIN vital_definitions}
    IN  [n \in known |-> VitalSign(n, vitals_data[n])]

collect_multiple_vitals(vitals_data) ==
    LET collected_vitals == collected_signs(vitals_data)
    IN  /\ current_session' = stored(current_session, collected_vitals)
        /\ vital_out' = [VitalOut("collect_multiple_vitals", "return", NoVitalSign,
                                  NoScore) EXCEPT !.collected = collected_vitals]
        /\ UNCHANGED <<doctors, appointments, now, proc, result, nbooked,
                       offered_rows, query, view, admin>>

\* lines 320-323: weight_kg / (height_m ** 2) with height_m = height / 100
bmi_value(height, weight) ==
    Q(weight.num * (height.den * 100) * (height.den * 100),
      weight.den * height.num * height.num)

\* line 333: diastolic + (systolic - diastolic) / 3
map_value(systolic, diastolic) ==
    LET diff == q_sub(systolic, diastolic)
    IN  q_add(diastolic, Q(diff.num, diff.den * 3))

\* line 343: systolic - diastolic
pulse_pressure(systolic, diastolic) == q_sub(systolic, diastolic)

\* lines 319, 328-329 and 338-339: the readings a derivation needs are there
has_height_weight(session) == {"height", "weight"} \subseteq DOMAIN session

has_blood_pressure(session) ==
    {"blood_pressure_systolic", "blood_pressure_diastolic"} \subseteq DOMAIN session

\* a calculate_derived_vitals that derives only what the session lacks
derived_vitals_missing_only(session) ==
    [outcome |-> "return",
     derived |-> [n \in ((IF has_height_weight(session) THEN {"bmi"} ELSE {})
                           \ DOMAIN session) |->
                     VitalSign(n, bmi_value(session["height"].value,
                                            session["weight"].value))]]

\* lines 315-349: what calculate_derived_vitals does to a session; the
\* division of line 323 raises ZeroDivisionError for a height of 0, before
\* anything is stored
derived_vitals(session) ==
    IF has_height_weight(session) /\ session["height"].value.num = 0
    THEN [outcome |-> "ZeroDivisionError", derived |-> EmptySession]
    ELSE LET names == (IF has_height_weight(session) THEN {"bmi"} ELSE {})
                      \cup (IF has_blood_pressure(session)
                            THEN {"mean_arterial_pressure",
                                  "blood_pressure_pulse_pressure"}
                            ELSE {})
             value(n) ==
                 IF n = "bmi"
                 THEN bmi_value(session["height"].value, session["weight"].value)
                 ELSE IF n = "mean_arterial_pressure"
                 THEN map_value(session["blood_pressure_systolic"].value,
                                session["blood_pressure_diastolic"].value)
                 ELSE pulse_pressure(session["blood_pressure_systolic"].value,
                                     session["blood_pressure_diastolic"].value)
         IN  [outcome |-> "return",
              derived |-> [n \in names |-> VitalSign(n, value(n))]]

\* calculate_derived_vitals(), lines 315-349
calculate_derived_vitals ==
    LET out == derived_vitals(current_session)
    IN  /\ current_session' = stored(current_session, out.derived)
        /\ vital_out' = [VitalOut("calculate_derived_vitals", out.outcome,
                                  NoVitalSign, NoScore)
                            EXCEPT !.collected = out.derived]
        /\ UNCHANGED <<doctors, appointments, now, proc, result, nbooked,
                       offered_rows, query, view, admin>>

\* the readings callers pass to collect_vital before deriving: a height of 0
\* and a usual one, two weights, two blood pressures, a bmi entered by hand
\* and an id that is not registered
DerivedInputs ==
    [ height |-> {Q(0, 1), Q(170, 1)},
      weight |-> {Q(70, 1), Q(120, 1)},
      blood_pressure_systolic |-> {Q(120, 1), Q(150, 1)},
      blood_pressure_diastolic |-> {Q(80, 1)},
      bmi |-> {Q(22, 1)},
      invalid_vital |-> {Q(100, 1)} ]

\* the mappings callers pass to collect_multiple_vitals
MultipleInputs ==
    { [height |-> Q(170, 1), weight |-> Q(70, 1)],
      [blood_pressure_systolic |-> Q(150, 1), blood_pressure_diastolic |-> Q(80, 1),
       invalid_vital |-> Q(100, 1)],
      [invalid_vital |-> Q(100, 1)] }

DerivedNext ==
    \/ \E vital_name \in DOMAIN DerivedInputs :
          \E value \in DerivedInputs[vital_name] : collect_vital(vital_name, value)
    \/ \E vitals_data \in MultipleInputs : collect_multiple_vitals(vitals_data)
    \/ calculate_derived_vitals
    \/ clear_session

DerivedSpec == VitalsInit /\ [][DerivedNext]_vars

\* validate_vital_value(vital_name, value), lines 471-490: the 'valid' entry
validate_vital_value(vital_name, value) ==
    IF vital_name \notin DOMAIN vital_definitions
    THEN FALSE
    ELSE LET min_val == vital_definitions[vital_name][1]
             max_val == vital_definitions[vital_name][2]
             min_valid == Q(min_val.num, min_val.den * 2)
             max_valid == Q(max_val.num * 2, max_val.den)
         IN  q_le(min_valid, value) /\ q_le(value, max_valid)

\* what a patient types into the number inputs of the form, 0 for an input
\* left alone: heights and weights inside and outside the accepted band,
\* blood pressures on its limits and a heart rate
FormFields ==
    [ height : {Q(0, 1), Q(60, 1), Q(150, 1), Q(170, 1)},
      weight : {Q(0, 1), Q(70, 1), Q(120, 1), Q(450, 1)},
      blood_pressure_systolic : {Q(0, 1), Q(120, 1), Q(240, 1)},
      blood_pressure_diastolic : {Q(0, 1), Q(30, 1), Q(80, 1)},
      heart_rate : {Q(0, 1), Q(75, 1)} ]

\* vitals_input_form, src/app.py lines 160-197: the inputs above 0 that
\* validate_vital_value accepts are collected with collect_multiple_vitals,
\* then calculate_derived_vitals runs; nothing is called when none is left
vitals_input_form(entered) ==
    LET names == {n \in DOMAIN entered :
                     /\ q_lt(Q(0, 1), entered[n])
                     /\ validate_vital_value(n, entered[n])}
        collected_vitals == [n \in names |-> entered[n]]
        session == stored(current_session, collected_signs(collected_vitals))
        out == derived_vitals(session)
    IN  /\ names # {}
        /\ current_session' = stored(session, out.derived)
        /\ vital_out' = [VitalOut("vitals_input_form", out.outcome, NoVitalSign,
                                  NoScore) EXCEPT !.collected = out.derived]
        /\ UNCHANGED <<doctors, appointments, now, proc, result, nbooked,
                       offered_rows, query, view, admin>>

FormNext ==
    \/ \E entered \in FormFields : vitals_input_form(entered)
    \/ clear_session

FormSpec == VitalsInit /\ [][FormNext]_vars

------------------------------------------------------------------------------
(* Properties *)

Confirmed(row) == row.status = "confirmed"

SameSlot(r1, r2) ==
    /\ r1.doctor_id = r2.doctor_id
    /\ r1.appointment_date = r2.appointment_date
    /\ r1.appointment_time = r2.appointment_time

\* C1: for every (doctor_id, appointment_date, appointment_time) at most one
\* row of the ledger is confirmed.
C1_OneConfirmedPerSlot ==
    \A i, j \in 1..Len(appointments) :
        (i # j /\ Confirmed(appointments[i]) /\ Confirmed(appointments[j]))
            => ~SameSlot(appointments[i], appointments[j])

\* C2: of two book_appointment calls for the same triple that overlap in
\* time, the slot being free when they started, exactly one succeeds.
C2_ConcurrentBookingOneWinner ==
    [][ \A u \in Users :
          ( /\ proc[u].pc = "book_append" /\ proc'[u].pc = "idle"
            /\ proc[u].call.offered
            /\ proc[u].call.beaten )
          => ~result'.ok
      ]_vars

\* C3: a book_appointment call whose time is not among the slots
\* get_available_time_slots computes when the call is made does not succeed.
C3_BookingRevalidatesSlot ==
    [][ \A u \in Users :
          ( /\ proc[u].pc = "book_append" /\ proc'[u].pc = "idle"
            /\ ~proc[u].call.offered )
          => (~result'.ok /\ appointments' = appointments)
      ]_vars

\* C4: get_available_time_slots never returns a time that a confirmed
\* appointment of that doctor and date holds.
C4_NoHeldSlotOffered ==
    \A i \in 1..Len(appointments) :
        LET row == appointments[i]
            res == get_available_time_slots(row.doctor_id,
                                            strptime_Ymd(row.appointment_date))
        IN  (row.status = "confirmed" /\ res.outcome = "return")
                => row.appointment_time \notin Range(res.slots)

\* C4 witness: at 08:10 DR001 has a confirmed 09:30 appointment today, and the
\* slots offered for today are the fourteen from 10:00 on.
C4_Witness ==
    /\ now = Instants[1]
    /\ \E i \in 1..Len(appointments) :
          /\ Confirmed(appointments[i])
          /\ appointments[i].doctor_id = "DR001"
          /\ appointments[i].appointment_date = strftime_Ymd(5)
          /\ appointments[i].appointment_time = HM(9, 30)
    /\ LET res == get_available_time_slots("DR001", 5)
       IN  /\ res.outcome = "return"
           /\ Len(res.slots) = 14
           /\ res.slots[1] = HM(10, 0)

\* C5: when cancel_appointment succeeds for an appointment booked from an
\* offered slot, the slots computed right after it contain the appointment's
\* time again (the doctor active, the time not cut off by the same-day buffer).
C5_CancelFreesSlot ==
    [][ \A u \in Users : \A doctor_id \in DoctorIds : \A date \in Dates :
          LET t == proc[u].call.target
          IN  ( /\ proc[u].pc = "cancel_write" /\ proc'[u].pc = "idle"
                /\ t.doctor_id = doctor_id
                /\ strptime_Ymd(t.appointment_date) = date
                /\ t.created_at \in offered_rows
                /\ generate_time_slots(doctor_id, date)'.outcome = "return"
                /\ t.appointment_time
                     \in Range(generate_time_slots(doctor_id, date)'.slots) )
              => t.appointment_time
                   \in Range(get_available_time_slots(doctor_id, date)'.slots)
      ]_vars

\* C6: cancel_appointment returns true, and then marks the row cancelled,
\* only when a row of that id and user existed that was not already cancelled
\* or completed; otherwise it returns false and leaves the ledger as it was.
C6_CancelOnlyLiveAppointments ==
    [][ \A u \in Users :
          ( /\ proc[u].pc = "cancel_write" /\ proc'[u].pc = "idle"
            /\ ~proc[u].call.eligible )
          => (~result'.ok /\ appointments' = appointments)
      ]_vars

\* C7: an appointment that is cancelled or completed is never confirmed again.
C7_TerminalStatusStays ==
    [][ \A i \in 1..Len(appointments) : \A j \in 1..Len(appointments') :
          ( /\ appointments[i].status \in {"cancelled", "completed"}
            /\ appointments'[j].created_at = appointments[i].created_at )
          => appointments'[j].status # "confirmed"
      ]_vars

\* now + 1 hour rounded up to the next :00 or :30, in minutes since today's
\* midnight (it can lie on the next day)
EarliestBookable ==
    LET x == now.minute + BufferMinutes
    IN  IF x % SlotMinutes = 0
        THEN (IF now.sec > 0 THEN x + SlotMinutes ELSE x)
        ELSE ((x \div SlotMinutes) + 1) * SlotMinutes

\* C8: on a same-day request every slot returned is at or after now + 1 hour
\* rounded up to the next half-hour boundary.
C8_SameDayBuffer ==
    (query.res.outcome = "return" /\ query.date = now.day) =>
        \A k \in 1..Len(query.res.slots) :
            strptime_HM(query.res.slots[k]) >= EarliestBookable

ActiveRows(doctor_id) ==
    {i \in 1..Len(doctors) :
        doctors[i].doctor_id = doctor_id /\ doctors[i].status = "active"}

NothingHeld(doctor_id, date) ==
    \A i \in 1..Len(appointments) :
        ~( /\ appointments[i].doctor_id = doctor_id
           /\ appointments[i].appointment_date = strftime_Ymd(date)
           /\ appointments[i].status \in {"confirmed", "pending"} )

\* the times start + k*30 minutes below end, in order
WindowSlots(window) ==
    LET start == strptime_HM(window[1])
        end == strptime_HM(window[2])
        n == IF end > start THEN (end - start + SlotMinutes - 1) \div SlotMinutes ELSE 0
    IN  [k \in 1..n |-> strftime_HM(start + (k - 1) * SlotMinutes)]

\* C9: for an active doctor, a date that is not today and is one of the
\* doctor's days, and nothing held, the call returns exactly the times
\* start + k*30 minutes below end, in order.
C9_FullGridReturned ==
    ( /\ query.res.outcome # "none"
      /\ ActiveRows(query.doctor_id) # {}
      /\ query.date # now.day
      /\ strftime_a(query.date)
           \in Range(doctors[Min(ActiveRows(query.doctor_id))].available_days)
      /\ NothingHeld(query.doctor_id, query.date) )
    => /\ query.res.outcome = "return"
       /\ query.res.slots
            = WindowSlots(doctors[Min(ActiveRows(query.doctor_id))].available_times)

\* C10: for an unknown or inactive doctor, and for a weekday that is not one
\* of the doctor's days, the call returns the empty list.
C10_EmptyForUnavailableDoctor ==
    ( /\ query.res.outcome # "none"
      /\ \/ ActiveRows(query.doctor_id) = {}
         \/ strftime_a(query.date)
              \notin Range(doctors[Min(ActiveRows(query.doctor_id))].available_days) )
    => query.res = [outcome |-> "return", slots |-> <<>>]

\* C10 witness: the slots of the deactivated DR001 were asked for a Monday,
\* with the 09:00-17:00 window and an appointment in the ledger, and the
\* answer was the empty list.
C10_Witness ==
    /\ query.doctor_id = "DR001"
    /\ query.date = 9
    /\ doctors[1].status = "inactive"
    /\ doctors[1].available_times = <<HM(9, 0), HM(17, 0)>>
    /\ "Mon" \in Range(doctors[1].available_days)
    /\ appointments # <<>>
    /\ query.res = [outcome |-> "return", slots |-> <<>>]

\* C11: for an active doctor get_available_time_slots never raises an
\* exception, whatever the date and the time of day: having nothing to offer
\* is an empty list.
C11_NeverRaises ==
    ( /\ query.res.outcome # "none"
      /\ ActiveRows(query.doctor_id) # {} )
    => query.res.outcome # "ValueError"

\* now lies in the closed interval from 30 minutes before the appointment to
\* 1 hour after it
InJoinWindow(row) ==
    LET at == appointment_datetime(row)
        n == now.day * MinutesPerDay + now.minute
    IN  /\ n >= at - 30
        /\ n < at + 60 \/ (n = at + 60 /\ now.sec = 0)

\* C12: the join button is offered for a listed appointment exactly when the
\* appointment is confirmed and now is between 30 minutes before it and
\* 1 hour after it.
C12_JoinWindow ==
    \A k \in 1..Len(view.entries) :
        view.entries[k].join
            <=> ( /\ view.entries[k].row.status = "confirmed"
                  /\ InJoinWindow(view.entries[k].row) )

\* the appointment's date and time are strictly later than now
InFuture(row) == appointment_datetime(row) > now.day * MinutesPerDay + now.minute

\* C13: a row's status becomes cancelled only in a cancel_appointment call of
\* the user who owns the row, and only while the appointment's date and time
\* are strictly later than now.
C13_CancelOnlyFutureByOwner ==
    [][ \A i \in 1..Len(appointments) : \A j \in 1..Len(appointments') :
          ( /\ appointments'[j].created_at = appointments[i].created_at
            /\ appointments[i].status # "cancelled"
            /\ appointments'[j].status = "cancelled" )
          => /\ \E u \in Users : /\ proc[u].pc = "cancel_write"
                                 /\ proc'[u].pc = "idle"
                                 /\ appointments[i].user_id = u
             /\ InFuture(appointments[i])
      ]_vars

\* C14: no two rows of the ledger share an appointment_id: every successful
\* book_appointment writes a confirmed row whose id differs from the ids
\* already in the ledger.
C14_UniqueAppointmentIds ==
    \A i, j \in 1..Len(appointments) :
        i # j => appointments[i].appointment_id # appointments[j].appointment_id

\* the rows written to the ledger after cancel_appointment of session u read it
BookedSinceRead(u) ==
    {i \in 1..Len(appointments) :
        \A k \in 1..Len(proc[u].rows) :
            proc[u].rows[k].created_at # appointments[i].created_at}

\* C15: when a book_appointment and a cancel_appointment of another
\* appointment overlap and both succeed, the ledger afterwards holds the new
\* confirmed row and the cancelled status, as after one of the two serial
\* orders.
C15_NoLostUpdate ==
    [][ \A u \in Users :
          (proc[u].pc = "cancel_write" /\ proc'[u].pc = "idle" /\ result'.ok)
          => /\ \A i \in BookedSinceRead(u) :
                  \E j \in 1..Len(appointments') : appointments'[j] = appointments[i]
             /\ \E j \in 1..Len(appointments') :
                  /\ appointments'[j].created_at = proc[u].call.target.created_at
                  /\ appointments'[j].status = "cancelled"
      ]_vars

\* C16: when cancel_appointment's write-back ends, completed or not, the
\* ledger holds either all the rows it held before or all the rows the call
\* set out to write; no row is lost.
C16_WriteBackAllOrNothing ==
    [][ \A u \in Users :
          (proc[u].pc = "cancel_write" /\ proc'[u].pc = "idle")
          => \/ appointments' = appointments
             \/ appointments' = proc[u].rows
      ]_vars

\* C17: no two rows of the doctor catalog have the same doctor_id.
C17_UniqueDoctorIds ==
    \A i, j \in 1..Len(doctors) :
        i # j => doctors[i].doctor_id # doctors[j].doctor_id

\* the status the rule gives a value in the range (min, max): critical below
\* 0.7*min or above 1.3*max, otherwise low below min, otherwise high above
\* max, otherwise normal
RuleStatus(value, range) ==
    IF \/ 10 * value.num * range[1].den < 7 * range[1].num * value.den
       \/ 10 * value.num * range[2].den > 13 * range[2].num * value.den
    THEN "critical"
    ELSE IF value.num * range[1].den < range[1].num * value.den THEN "low"
    ELSE IF value.num * range[2].den > range[2].num * value.den THEN "high"
    ELSE "normal"

\* C18: the status collect_vital gives a measurement, returned and stored in
\* the session, is the one the rule gives its value in the vital's range.
C18_StatusAtCollection ==
    /\ (vital_out.op = "collect_vital" /\ vital_out.outcome = "return")
          => vital_out.vital.status
                = RuleStatus(vital_out.vital.value,
                             vital_definitions[vital_out.vital.name])
    /\ \A k \in DOMAIN current_session :
          current_session[k].status
             = RuleStatus(current_session[k].value, vital_definitions[k])

\* C18 witness: a heart rate of 42, on the critical limit 0.7 * 60, was
\* collected as low, next to a critical weight of 270 in the session.
C18_Witness ==
    /\ vital_out.op = "collect_vital"
    /\ vital_out.vital.name = "heart_rate"
    /\ vital_out.vital.value = Q(42, 1)
    /\ vital_out.vital.status = "low"
    /\ "weight" \in DOMAIN current_session
    /\ current_session["weight"].status = "critical"

\* the exact score of the session, as the pair <<numerator, denominator>>:
\* max(0, 100*normal/n - 20*abnormal/n - 50*critical/n)
ExactScore(session) ==
    LET n == Cardinality(DOMAIN session)
        x == 100 * status_count(session, {"normal"})
               - 20 * status_count(session, {"low", "high"})
               - 50 * status_count(session, {"critical"})
    IN  IF x < 0 THEN <<0, n>> ELSE <<x, n>>

ExactGrade(session) ==
    LET e == ExactScore(session)
    IN  IF e[1] >= 90 * e[2] THEN "Excellent"
        ELSE IF e[1] >= 80 * e[2] THEN "Good"
        ELSE IF e[1] >= 70 * e[2] THEN "Fair"
        ELSE IF e[1] >= 60 * e[2] THEN "Poor"
        ELSE "Critical"

\* C19: for a session of n >= 1 measurements get_health_score returns the
\* score max(0, 100*normal/n - 20*abnormal/n - 50*critical/n), within 0..100,
\* and the grade of that score (Excellent from 90, Good from 80, Fair from
\* 70, Poor from 60, else Critical); for an empty session score 0 and grade
\* Unknown.
C19_HealthScoreAndGrade ==
    vital_out.op = "get_health_score" =>
        IF DOMAIN current_session = {}
        THEN vital_out.score.score = 0 /\ vital_out.score.grade = "Unknown"
        ELSE /\ vital_out.score.score * ExactScore(current_session)[2]
                  = 10 * ExactScore(current_session)[1]
             /\ vital_out.score.score \in 0..1000
             /\ vital_out.score.grade = ExactGrade(current_session)

\* C20: when a measurement that is critical joins the session, the numbers of
\* normal and of abnormal measurements staying as they are, the health score
\* does not go up.
C20_ScoreMonotoneInCritical ==
    [][ ( /\ status_count(current_session', {"normal"})
               = status_count(current_session, {"normal"})
          /\ status_count(current_session', {"low", "high"})
               = status_count(current_session, {"low", "high"})
          /\ status_count(current_session', {"critical"})
               > status_count(current_session, {"critical"}) )
        => health_score(current_session').score <= health_score(current_session).score
      ]_vars

\* C20 witness: a critical weight was collected into a session that held a
\* normal and a low measurement and scored above 0.
C20_Witness ==
    /\ vital_out.op = "collect_vital"
    /\ vital_out.vital.name = "weight"
    /\ vital_out.vital.status = "critical"
    /\ status_count(current_session, {"normal"}) = 1
    /\ status_count(current_session, {"low", "high"}) = 1
    /\ status_count(current_session, {"critical"}) = 1
    /\ health_score(current_session).score = 100

C22_UnknownVitalRaises ==
    [][ (vital_out'.op = "collect_vital")
        => /\ vital_out'.outcome \in {"return", "ValueError"}
           /\ vital_out'.outcome = "return"
                 => vital_out'.vital.name \in DOMAIN vital_definitions
           /\ vital_out'.outcome = "ValueError"
                 => current_session' = current_session
           /\ DOMAIN current_session' \subseteq DOMAIN vital_definitions
      ]_vars

\* C22 witness: collect_vital raised ValueError on a session that holds two
\* measurements.
C22_Witness ==
    /\ vital_out.op = "collect_vital"
    /\ vital_out.outcome = "ValueError"
    /\ DOMAIN current_session = {"heart_rate", "weight"}

\* greatest common divisor of two natural numbers, and a rational in lowest
\* terms
RECURSIVE GCD(_, _)
GCD(a, b) == IF b = 0 THEN a ELSE GCD(b, a % b)

Lowest(q) ==
    LET g == GCD(IF q.num < 0 THEN -q.num ELSE q.num, q.den)
    IN  Q(q.num \div g, q.den \div g)

\* C23: after calculate_derived_vitals the returned mapping holds bmi exactly
\* when height and weight are in the session, and mean arterial pressure and
\* pulse pressure exactly when both blood pressures are; each returned entry
\* is the one in the session, has the value of its formula and the status
\* the rule gives that value in its own range.
C23_DerivedEntries ==
    (vital_out.op = "calculate_derived_vitals") =>
       LET derived == vital_out.collected
           session == current_session
       IN  /\ ("bmi" \in DOMAIN derived) <=> has_height_weight(session)
           /\ ("mean_arterial_pressure" \in DOMAIN derived)
                 <=> has_blood_pressure(session)
           /\ ("blood_pressure_pulse_pressure" \in DOMAIN derived)
                 <=> has_blood_pressure(session)
           /\ DOMAIN derived \subseteq {"bmi", "mean_arterial_pressure",
                                        "blood_pressure_pulse_pressure"}
           /\ \A n \in DOMAIN derived :
                 /\ n \in DOMAIN session /\ session[n] = derived[n]
                 /\ derived[n].status
                       = RuleStatus(derived[n].value, vital_definitions[n])
           /\ ("bmi" \in DOMAIN derived) =>
                 LET h == session["height"].value
                     w == session["weight"].value
                     b == Lowest(derived["bmi"].value)
                 IN  b.num * w.den * h.num * h.num
                        = w.num * 10000 * h.den * h.den * b.den
           /\ ("mean_arterial_pressure" \in DOMAIN derived) =>
                 LET s == session["blood_pressure_systolic"].value
                     d == session["blood_pressure_diastolic"].value
                     m == derived["mean_arterial_pressure"].value
                     p == derived["blood_pressure_pulse_pressure"].value
                 IN  /\ 3 * m.num * s.den * d.den
                           = (2 * d.num * s.den + s.num * d.den) * m.den
                     /\ p.num * s.den * d.den
                           = (s.num * d.den - d.num * s.den) * p.den

\* C24: the session holds one measurement for a name, under registered names
\* only; a call changes the entry of a name only to the measurement it
\* collected for that name, an entry goes away only in clear_session, and
\* clear_session leaves the session empty.
C24_SessionHoldsLatest ==
    [][ /\ DOMAIN current_session' \subseteq DOMAIN vital_definitions
        /\ vital_out'.op = "clear_session" => current_session' = EmptySession
        /\ \A k \in DOMAIN current_session :
              k \in DOMAIN current_session' \/ vital_out'.op = "clear_session"
        /\ \A k \in DOMAIN current_session' :
              LET collected ==
                      (IF /\ vital_out'.op = "collect_vital"
                          /\ vital_out'.outcome = "return"
                          /\ vital_out'.vital.name = k
                       THEN {vital_out'.vital} ELSE {})
                      \cup (IF k \in DOMAIN vital_out'.collected
                            THEN {vital_out'.collected[k]} ELSE {})
              IN  IF collected # {}
                  THEN current_session'[k] \in collected
                  ELSE /\ k \in DOMAIN current_session
                       /\ current_session'[k] = current_session[k]
      ]_vars

\* C24 witness: collect_multiple_vitals has put a height of 170 and a weight
\* of 70 over a session that held derived blood-pressure entries and a bmi
\* derived from another weight.
C24_Witness ==
    /\ vital_out.op = "collect_multiple_vitals"
    /\ DOMAIN vital_out.collected = {"height", "weight"}
    /\ current_session["weight"].value = Q(70, 1)
    /\ "mean_arterial_pressure" \in DOMAIN current_session
    /\ "bmi" \in DOMAIN current_session
    /\ current_session["bmi"].status = "critical"

\* C25: get_available_time_slots comes back, with a list, for every window
\* whose start and end are times of day, an end after 23:30 included.
C25_SlotsTerminate ==
    query.res.outcome # "hang"

\* C26: the slots returned for today are among the times start + k*30
\* minutes of the doctor's window, those a date other than today gets.
C26_SameDaySlotsOnGrid ==
    ( /\ query.res.outcome = "return"
      /\ query.date = now.day
      /\ ActiveRows(query.doctor_id) # {} )
    => \A k \in 1..Len(query.res.slots) :
          query.res.slots[k]
             \in Range(WindowSlots(
                    doctors[Min(ActiveRows(query.doctor_id))].available_times))

\* C27: a cancel_appointment that succeeds leaves the ledger as it was but
\* for the status of the one row it cancels: as many rows, in the same
\* order, every other row and every other field as before; one that fails
\* leaves the ledger as it was.
C27_CancelChangesOneStatus ==
    [][ /\ \A u \in Users :
              (proc[u].pc = "cancel_write" /\ proc'[u].pc = "idle" /\ result'.ok)
              => \E i \in 1..Len(appointments) :
                    /\ Matches(appointments[i],
                               proc[u].call.target.appointment_id, u)
                    /\ appointments'
                          = [appointments EXCEPT ![i].status = "cancelled"]
        /\ (result' # result /\ result'.op = "cancel" /\ ~result'.ok)
              => appointments' = appointments
      ]_vars

\* C28: in a session filled through the vitals form every measurement,
\* the derived ones too, lies in the band from half the lower limit to
\* twice the upper limit of its own range.
C28_SessionInBand ==
    \A k \in DOMAIN current_session :
       LET v == current_session[k].value
           lo == vital_definitions[k][1]
           hi == vital_definitions[k][2]
       IN  /\ lo.num * v.den <= 2 * v.num * lo.den
           /\ v.num * hi.den <= 2 * hi.num * v.den

\* C29: a row of the doctor catalog that is inactive is not active after any
\* step of the admin interface (add, deactivate, activate).
C29_InactiveStaysInactive ==
    [][ \A i \in 1..Len(doctors) :
          (doctors[i].status = "inactive" /\ i <= Len(doctors'))
          => ~( /\ doctors'[i].doctor_id = doctors[i].doctor_id
                /\ doctors'[i].status = "active" )
      ]_vars

\* C30: calculate_derived_vitals returns, it does not raise, whatever
\* collect_vital put into the session.
C30_DerivedNeverRaises ==
    (vital_out.op = "calculate_derived_vitals") => vital_out.outcome = "return"

====
